---- MODULE Spec2Model ----
(***************************************************************************)
(* Model of the worm-like-chain fitter (wlc/fitting.py) and of the model   *)
(* library (wlc/models.py).                                                *)
(*                                                                         *)
(* One WormLikeChain object is modelled: its constructor, compile and fit. *)
(* fit is split at the minimizer call, the only external call of the loop: *)
(* FitCall is the entry of fit up to the first test of the loop condition, *)
(* FitIter is one whole pass through the loop body followed by the next    *)
(* test of the loop condition and, when it fails, by the code after the    *)
(* loop.  The minimizer (lmfit) is an external collaborator: each call     *)
(* returns fitted values chosen nondeterministically.                      *)
(*                                                                         *)
(* Lengths (Lc, Lp, min_delta) are integers in nanometers.  kBT is an      *)
(* integer in units of 1e-8 pN*nm, so that 0.013806 * (273.15 + T) is      *)
(* exact: KB is in 1e-6, temperatures are in 1e-2 degrees.                 *)
(***************************************************************************)
EXTENDS Integers, Sequences, FiniteSets

VARIABLES
    model,      \* self.model: the accepted model name, "none" before construction
    func,       \* self.func: the selected model function, "none" before construction
    fparams,    \* self.fparams: the prepared configuration, NoParams before compile
    pc,         \* "idle": no call is running; "loop": fit is inside its while loop
    fr,         \* the locals of the running (or last) fit call
    df_full,    \* self.df_full: the stored accepted-record sequence (an Option)
    result,     \* self.result: the last minimizer result (an Option)
    last,       \* the last finished call: which operation, its arguments, its outcome
    nfits,      \* number of fit calls made on the object
    hist,       \* bookkeeping of minimizer invocations (not program state)
    ev          \* an evaluation of a model function: its arguments and value

vars == <<model, func, fparams, pc, fr, df_full, result, last, nfits, hist, ev>>

-----------------------------------------------------------------------------
(* Bounds of the model *)

\* largest max_iters argument given to fit
MaxIters == 3

\* number of fit calls made on one object
MaxFits == 2

\* number of minimizer invocations made on one object
MaxCalls == 3

\* the largest distance a model function is evaluated at, in quarters of a
\* micrometer
MaxD == 9

\* bouchiat is evaluated at the distances k/4 micrometers, k in -MaxB..MaxB
MaxB == 3

-----------------------------------------------------------------------------
(* Values *)

\* an optional value: None is an absent number, Absent(x) an absent value of
\* the kind of x
None == [some |-> FALSE, v |-> 0]

Absent(x) == [some |-> FALSE, v |-> x]

Some(x) == [some |-> TRUE, v |-> x]

\* filename = None
NoName == Absent("")

\* np.infty as a value of dLp
Infty == [inf |-> TRUE, v |-> 0]

Fin(x) == [inf |-> FALSE, v |-> x]

Abs(x) == IF x < 0 THEN -x ELSE x

\* the test with the magnitude of min_delta in place of min_delta
GtMagnitude(d, m) == d.inf \/ d.v > Abs(m)

\* dLp > min_delta, for a finite min_delta
Gt(d, m) == d.inf \/ d.v > m

\* Boltzmann constant, in 1e-6 pN*nm/K
KB == 13806

\* 273.15, in 1e-2 degrees
ZeroCelsius == 27315

\* KB*(273.15 + T) in 1e-8 pN*nm, for T in whole degrees
KBTofT(T) == KB * (ZeroCelsius + 100 * T)

-----------------------------------------------------------------------------
(* Exact arithmetic for the model functions: a number is a fraction n/d in   *)
(* lowest terms with d > 0; PosInf is the value of a division of a positive  *)
(* number by zero.                                                           *)

RECURSIVE Gcd(_, _)
Gcd(a, b) == IF b = 0 THEN a ELSE Gcd(b, a % b)

Frac(n, d) ==
    LET g == Gcd(Abs(n), Abs(d))
        s == IF d < 0 THEN -1 ELSE 1
    IN  [n |-> s * (n \div g), d |-> s * (d \div g)]

R(k) == [n |-> k, d |-> 1]

PosInf == [n |-> 1, d |-> 0]

RAdd(a, b) == Frac(a.n * b.d + b.n * a.d, a.d * b.d)

RSub(a, b) == Frac(a.n * b.d - b.n * a.d, a.d * b.d)

RMul(a, b) == Frac(a.n * b.n, a.d * b.d)

RDiv(a, b) == Frac(a.n * b.d, a.d * b.n)

RLt(a, b) == a.n * b.d < b.n * a.d

-----------------------------------------------------------------------------
(* Inputs *)

\* model names passed to the constructor
ModelNames == {"WLC", "eWLC", "bouchiat", "ebouchiat", "odijk", "fjc"}

\* kBT supplied in the parameter specification: absent, 4.1, 0.013806*298.15
KBTArgs == {None, Some(410000000), Some(411625890)}

\* T supplied in the parameter specification: absent, 25, 1000
TArgs == {None, Some(25), Some(1000)}

\* initial values and bounds of Lc, Lp and S of a parameter specification
Wide == [Lc |-> 2, Lc_lower |-> 1, Lc_upper |-> 3,
         Lp |-> 1, Lp_lower |-> 0, Lp_upper |-> 3,
         S |-> 5, S_lower |-> 0, S_upper |-> 9]

Narrow == [Lc |-> 2, Lc_lower |-> 1, Lc_upper |-> 2,
           Lp |-> 2, Lp_lower |-> 1, Lp_upper |-> 2,
           S |-> 5, S_lower |-> 4, S_upper |-> 6]

\* parameter specifications passed to compile
ParamSpecs == {[kBT |-> k, T |-> t, dna |-> b] :
                 k \in KBTArgs, t \in TArgs, b \in {Wide, Narrow}}

\* the model names and parameter specifications of the runs that go on to fit
FitModelNames == {"WLC", "eWLC", "bouchiat", "odijk", "ebouchiat"}

FitParamSpecs == {[kBT |-> None, T |-> Some(25), dna |-> Wide],
                  [kBT |-> Some(410000000), T |-> Some(1000), dna |-> Wide]}

\* fitted values the minimizer may return
LcFit == {2, 3, 4}

LpFit == {1, 2, 3}

SFit == {5}

ChisqrFit == {0}

\* arguments of fit
MinDeltas == {-1, 0, 1}

FileNames == {NoName, Some("f1")}

\* arguments of the model functions: kBT in pN*nm, Lc and Lp in nm, and
\* distances in micrometers on a grid of quarters, 0 .. MaxD/4
KBTEval == {Frac(41, 10), R(4)}

LcEval == {R(1000), R(1500), R(2000)}

LpEval == {R(45), R(50)}

DEval == {Frac(k, 4) : k \in 0..MaxD}

LcBou == {R(500), R(2000), R(4000)}

DBou == {Frac(k, 4) : k \in (0 - MaxB)..MaxB}

-----------------------------------------------------------------------------
(* The object *)

NoParams == [compiled |-> FALSE]

\* no self.df_full attribute yet
NoRecords == Absent(<<>>)

\* no self.result attribute yet
NoResult == Absent([Lc |-> 0, Lp |-> 0, S |-> None, chisqr |-> 0])

\* no parameter S in self.fparams
NoS == Absent([value |-> 0, min |-> 0, max |-> 0, vary |-> FALSE])

NoFrame == [i |-> 0, dLp |-> Infty, df_full |-> <<>>, min_delta |-> 0,
            max_iters |-> 0, filename |-> NoName]

\* calls: minimizer invocations made by the running (or last) fit call;
\* outs: what each of them returned; guess: the initial value of Lp each was
\* given; warm: a minimizer invocation was made since the last compile
\* total: minimizer invocations the fit calls made so far may make in all
NoHist == [calls |-> 0, outs |-> <<>>, guess |-> <<>>, warm |-> FALSE, total |-> 0]

NoCall == [op |-> "none", err |-> "none"]

NoEval == [done |-> FALSE]

FitterInit ==
    /\ model = "none"
    /\ func = "none"
    /\ fparams = NoParams
    /\ pc = "idle"
    /\ fr = NoFrame
    /\ df_full = NoRecords
    /\ result = NoResult
    /\ last = NoCall
    /\ nfits = 0
    /\ hist = NoHist

Init == FitterInit /\ ev = NoEval

\* SelectFunc with a branch for ebouchiat added to the chain
SelectFuncFive(name) ==
    IF name = "WLC" THEN "WLC"
    ELSE IF name = "bouchiat" THEN "bouchiat"
    ELSE IF name = "odijk" THEN "odijk"
    ELSE IF name = "eWLC" THEN "eWLC"
    ELSE IF name = "ebouchiat" THEN "ebouchiat"
    ELSE "none"

\* the if/elif chain of __init__: the function stored for a model name,
\* "none" when the chain reaches its else branch
SelectFunc(name) ==
    IF name = "WLC" THEN "WLC"
    ELSE IF name = "bouchiat" THEN "bouchiat"
    ELSE IF name = "odijk" THEN "odijk"
    ELSE IF name = "eWLC" THEN "eWLC"
    ELSE "none"

\* WormLikeChain(name)
Construct(name) ==
    /\ pc = "idle"
    /\ model = "none"
    /\ IF SelectFunc(name) = "none"
       THEN /\ last' = [op |-> "init", err |-> "ValueError", arg |-> name]
            /\ UNCHANGED <<model, func>>
       ELSE /\ func' = SelectFunc(name)
            /\ model' = name
            /\ last' = [op |-> "init", err |-> "none", arg |-> name]
    /\ UNCHANGED <<fparams, pc, fr, df_full, result, nfits, hist, ev>>

\* the kBT/T branches of compile: the value kBT is fixed at, or the error raised
KBTHint(p) ==
    IF p.kBT.some /\ ~p.T.some THEN [err |-> "none", value |-> p.kBT.v]
    ELSE IF ~p.kBT.some /\ p.T.some THEN [err |-> "none", value |-> KBTofT(p.T.v)]
    ELSE IF ~p.kBT.some THEN [err |-> "KeyError", value |-> 0]
    ELSE IF p.kBT.v = KBTofT(p.T.v) THEN [err |-> "none", value |-> p.kBT.v]
    ELSE [err |-> "ValueError", value |-> 0]

\* S registered for every model but WLC
NeedsSAllButWLC(m) == m # "WLC"

\* the models compile registers S for
NeedsS(m) == (m = "odijk") \/ (m = "eWLC")

\* set_param_hint for Lc, Lp, S, then make_params, then kBT.vary = False
MakeParams(m, p, kbt) ==
    [compiled |-> TRUE,
     kBT |-> [value |-> kbt, vary |-> FALSE],
     Lc |-> [value |-> p.dna.Lc, min |-> p.dna.Lc_lower, max |-> p.dna.Lc_upper,
             vary |-> TRUE],
     Lp |-> [value |-> p.dna.Lp, min |-> p.dna.Lp_lower, max |-> p.dna.Lp_upper,
             vary |-> TRUE],
     S |-> IF NeedsS(m)
           THEN Some([value |-> p.dna.S, min |-> p.dna.S_lower, max |-> p.dna.S_upper,
                      vary |-> TRUE])
           ELSE NoS]

\* self.compile(p)
Compile(p) ==
    /\ pc = "idle"
    /\ model # "none"
    /\ LET h == KBTHint(p) IN
       /\ last' = [op |-> "compile", err |-> h.err, kBT |-> p.kBT, T |-> p.T]
       /\ IF h.err = "none"
          THEN /\ fparams' = MakeParams(model, p, h.value)
               /\ hist' = [hist EXCEPT !.warm = FALSE]
          ELSE UNCHANGED <<fparams, hist>>
    /\ UNCHANGED <<model, func, pc, fr, df_full, result, nfits, ev>>

-----------------------------------------------------------------------------
(* fit *)

\* WhileCond with the iteration budget tested by <= instead of <
WhileCondOffByOne(f) == Gt(f.dLp, f.min_delta) /\ f.i <= f.max_iters

\* the condition of the while loop
WhileCond(f) == Gt(f.dLp, f.min_delta) /\ f.i < f.max_iters

\* df.loc[k, ...] exists: k is a label of the index 0..len-1
HasLoc(df, k) == k + 1 \in 1..Len(df)

Loc(df, k) == df[k + 1]

\* InBounds with the bounds themselves accepted (< and > in the filter)
InBoundsInclusive(Lc, Lp, p) ==
    /\ ~((Lc < p.Lc.min) \/ (Lc > p.Lc.max))
    /\ ~((Lp < p.Lp.min) \/ (Lp > p.Lp.max))

\* the else branch of the acceptance filter: neither message is printed
InBounds(Lc, Lp, p) ==
    /\ ~((Lc <= p.Lc.min) \/ (Lc >= p.Lc.max))
    /\ ~((Lp <= p.Lp.min) \/ (Lp >= p.Lp.max))

\* Summary taking the first row (values[0]) instead of the last
SummaryFirst(df) ==
    LET r == df[1] IN
    [opt_Lc |-> r.Lc, opt_Lp |-> r.Lp, opt_S |-> r.S, nFittings |-> r.iter,
     filename |-> r.filename]

\* the row of df_file built from the last row of the accepted records
Summary(df) ==
    LET r == df[Len(df)] IN
    [opt_Lc |-> r.Lc, opt_Lp |-> r.Lp, opt_S |-> r.S, nFittings |-> r.iter,
     filename |-> r.filename]

\* AfterLoop returning an empty row when no record was accepted
AfterLoopNoRaise(f) ==
    /\ pc' = "idle"
    /\ last' = [op |-> "fit", err |-> "none",
                df_file |-> IF f.df_full = <<>>
                            THEN [opt_Lc |-> 0, opt_Lp |-> 0, opt_S |-> None,
                                  nFittings |-> 0, filename |-> NoName]
                            ELSE Summary(f.df_full)]
    /\ df_full' = Some(f.df_full)

\* AfterLoop with self.df_full assigned before the last record is read
AfterLoopStoreFirst(f) ==
    /\ pc' = "idle"
    /\ df_full' = Some(f.df_full)
    /\ IF f.df_full = <<>>
       THEN last' = [op |-> "fit", err |-> "IndexError"]
       ELSE last' = [op |-> "fit", err |-> "none", df_file |-> Summary(f.df_full)]

\* the code after the loop: values[-1] of an empty frame raises IndexError,
\* before self.df_full is assigned
AfterLoop(f) ==
    /\ pc' = "idle"
    /\ IF f.df_full = <<>>
       THEN /\ last' = [op |-> "fit", err |-> "IndexError"]
            /\ UNCHANGED df_full
       ELSE /\ last' = [op |-> "fit", err |-> "none", df_file |-> Summary(f.df_full)]
            /\ df_full' = Some(f.df_full)

\* self.fit(data, min_delta, max_iters, filename) up to the first loop test
FitCall(md, mi, fn) ==
    /\ pc = "idle"
    /\ fparams.compiled
    /\ nfits < MaxFits
    /\ hist.total + mi <= MaxCalls
    /\ nfits' = nfits + 1
    /\ LET f == [i |-> 0, dLp |-> Infty, df_full |-> <<>>, min_delta |-> md,
                 max_iters |-> mi, filename |-> fn] IN
       /\ fr' = f
       /\ hist' = [hist EXCEPT !.calls = 0, !.outs = <<>>, !.guess = <<>>,
                                   !.total = hist.total + mi]
       /\ IF WhileCond(f)
          THEN /\ pc' = "loop"
               /\ last' = [op |-> "fit", err |-> "running"]
               /\ UNCHANGED df_full
          ELSE AfterLoop(f)
    /\ UNCHANGED <<model, func, fparams, result, ev>>

\* the fitted S extracted from the result: None unless the model is odijk or eWLC
FittedS(m, S) == IF (m = "odijk") \/ (m = "eWLC") THEN Some(S) ELSE None

\* the loop body with dLp taken from the last accepted record, whatever its
\* label, and left as it is when there is none
FitIterLastAccepted(Lc, Lp, S, Chisqr) ==
    /\ pc = "loop"
    /\ result' = Some([Lc |-> Lc, Lp |-> Lp, S |-> FittedS(model, S), chisqr |-> Chisqr])
    /\ hist' = [calls |-> hist.calls + 1,
                outs |-> Append(hist.outs, [Lc |-> Lc, Lp |-> Lp]),
                guess |-> Append(hist.guess, fparams.Lp.value),
                warm |-> TRUE,
                total |-> hist.total]
    /\ LET dLp == IF fr.i > 0 /\ fr.df_full # <<>>
                  THEN Fin(Abs(Lp - fr.df_full[Len(fr.df_full)].Lp))
                  ELSE fr.dLp
           df_res == [Lc |-> Lc, Lp |-> Lp, S |-> FittedS(model, S),
                      Chisqr |-> Chisqr, filename |-> fr.filename,
                      iter |-> fr.i + 1, dLp |-> dLp]
           f == [fr EXCEPT !.dLp = dLp,
                           !.df_full = IF InBounds(Lc, Lp, fparams)
                                       THEN Append(fr.df_full, df_res)
                                       ELSE fr.df_full,
                           !.i = fr.i + 1]
       IN  /\ fr' = f
           /\ fparams' = [fparams EXCEPT !.Lp.value = Lp]
           /\ IF WhileCond(f)
              THEN UNCHANGED <<pc, last, df_full>>
              ELSE AfterLoop(f)
    /\ UNCHANGED <<model, func, nfits, ev>>

\* the loop body as it is, but warm-starting Lc as well as Lp
FitIterWarmLc(Lc, Lp, S, Chisqr) ==
    /\ pc = "loop"
    /\ result' = Some([Lc |-> Lc, Lp |-> Lp, S |-> FittedS(model, S), chisqr |-> Chisqr])
    /\ hist' = [calls |-> hist.calls + 1,
                outs |-> Append(hist.outs, [Lc |-> Lc, Lp |-> Lp]),
                guess |-> Append(hist.guess, fparams.Lp.value),
                warm |-> TRUE,
                total |-> hist.total]
    /\ IF fr.i > 0 /\ ~HasLoc(fr.df_full, fr.i - 1)
       THEN \* df_full.loc[i-1, 'Lp[nm]'] raises KeyError
            /\ pc' = "idle"
            /\ last' = [op |-> "fit", err |-> "KeyError"]
            /\ UNCHANGED <<fr, fparams, df_full>>
       ELSE LET dLp == IF fr.i > 0
                       THEN Fin(Abs(Lp - Loc(fr.df_full, fr.i - 1).Lp))
                       ELSE fr.dLp
                df_res == [Lc |-> Lc, Lp |-> Lp, S |-> FittedS(model, S),
                           Chisqr |-> Chisqr, filename |-> fr.filename,
                           iter |-> fr.i + 1, dLp |-> dLp]
                f == [fr EXCEPT !.dLp = dLp,
                                !.df_full = IF InBounds(Lc, Lp, fparams)
                                            THEN Append(fr.df_full, df_res)
                                            ELSE fr.df_full,
                                !.i = fr.i + 1]
            IN  /\ fr' = f
                \* self.fparams["Lp"].set(Lp): Lp is stored as given
                /\ fparams' = [fparams EXCEPT !.Lp.value = Lp, !.Lc.value = Lc]
                /\ IF WhileCond(f)
                   THEN UNCHANGED <<pc, last, df_full>>
                   ELSE AfterLoop(f)
    /\ UNCHANGED <<model, func, nfits, ev>>

\* one pass through the loop body; the minimizer returns Lc, Lp, S, Chisqr
FitIter(Lc, Lp, S, Chisqr) ==
    /\ pc = "loop"
    /\ result' = Some([Lc |-> Lc, Lp |-> Lp, S |-> FittedS(model, S), chisqr |-> Chisqr])
    /\ hist' = [calls |-> hist.calls + 1,
                outs |-> Append(hist.outs, [Lc |-> Lc, Lp |-> Lp]),
                guess |-> Append(hist.guess, fparams.Lp.value),
                warm |-> TRUE,
                total |-> hist.total]
    /\ IF fr.i > 0 /\ ~HasLoc(fr.df_full, fr.i - 1)
       THEN \* df_full.loc[i-1, 'Lp[nm]'] raises KeyError
            /\ pc' = "idle"
            /\ last' = [op |-> "fit", err |-> "KeyError"]
            /\ UNCHANGED <<fr, fparams, df_full>>
       ELSE LET dLp == IF fr.i > 0
                       THEN Fin(Abs(Lp - Loc(fr.df_full, fr.i - 1).Lp))
                       ELSE fr.dLp
                df_res == [Lc |-> Lc, Lp |-> Lp, S |-> FittedS(model, S),
                           Chisqr |-> Chisqr, filename |-> fr.filename,
                           iter |-> fr.i + 1, dLp |-> dLp]
                f == [fr EXCEPT !.dLp = dLp,
                                !.df_full = IF InBounds(Lc, Lp, fparams)
                                            THEN Append(fr.df_full, df_res)
                                            ELSE fr.df_full,
                                !.i = fr.i + 1]
            IN  /\ fr' = f
                \* self.fparams["Lp"].set(Lp): Lp is stored as given
                /\ fparams' = [fparams EXCEPT !.Lp.value = Lp]
                /\ IF WhileCond(f)
                   THEN UNCHANGED <<pc, last, df_full>>
                   ELSE AfterLoop(f)
    /\ UNCHANGED <<model, func, nfits, ev>>

-----------------------------------------------------------------------------
(* The model library *)

\* WLC with the sign of the d/Lc term flipped
WLCMinus(d, kBT, Lc, Lp) ==
    LET dn == RMul(d, R(1000))
        x == RDiv(dn, Lc)
        g == RSub(R(1), x)
    IN  IF g.n = 0 THEN PosInf
        ELSE RMul(RDiv(kBT, Lp),
                  RSub(RSub(RDiv(Frac(1, 4), RMul(g, g)), Frac(1, 4)), x))

\* WLC(d, kBT, Lc, Lp): d in micrometers is first multiplied by 1000;
\* (kBT/Lp)*(0.25/(1-d/Lc)**2 - 0.25 + d/Lc), infinite where d/Lc = 1
WLC(d, kBT, Lc, Lp) ==
    LET dn == RMul(d, R(1000))
        x == RDiv(dn, Lc)
        g == RSub(R(1), x)
    IN  IF g.n = 0 THEN PosInf
        ELSE RMul(RDiv(kBT, Lp),
                  RAdd(RSub(RDiv(Frac(1, 4), RMul(g, g)), Frac(1, 4)), x))

\* WLC is applied to the two distances of ev
EvalWLC ==
    /\ ev.func = "WLC"
    /\ ~ev.done
    /\ ev' = [ev EXCEPT !.F = WLC(ev.d, ev.kBT, ev.Lc, ev.Lp),
                        !.F2 = WLC(ev.d2, ev.kBT, ev.Lc, ev.Lp),
                        !.done = TRUE]
    /\ UNCHANGED <<model, func, fparams, pc, fr, df_full, result, last, nfits, hist>>

-----------------------------------------------------------------------------
(* Exact arithmetic on integers of any size: the coefficients of bouchiat have
   up to seven decimals and multiply powers of d/Lc up to the seventh, which
   leaves the range of machine integers *)

Base == 10000

\* a magnitude is a sequence of limbs in 0..Base-1, least significant first,
\* with no leading zero limb; <<>> is zero
Hd(a) == IF a = <<>> THEN 0 ELSE Head(a)

Tl(a) == IF a = <<>> THEN <<>> ELSE Tail(a)

RECURSIVE MagTrim(_)
MagTrim(a) ==
    IF a = <<>> THEN <<>>
    ELSE IF a[Len(a)] = 0 THEN MagTrim(SubSeq(a, 1, Len(a) - 1))
    ELSE a

RECURSIVE MagOfNat(_)
MagOfNat(k) == IF k = 0 THEN <<>> ELSE <<k % Base>> \o MagOfNat(k \div Base)

RECURSIVE MagAdd(_, _, _)
MagAdd(a, b, c) ==
    IF a = <<>> /\ b = <<>> THEN MagOfNat(c)
    ELSE LET x == Hd(a) + Hd(b) + c
         IN  <<x % Base>> \o MagAdd(Tl(a), Tl(b), x \div Base)

\* a - b - br for a >= b + br, before trimming
RECURSIVE MagSub(_, _, _)
MagSub(a, b, br) ==
    IF a = <<>> THEN <<>>
    ELSE LET x == Hd(a) - Hd(b) - br
         IN  IF x < 0 THEN <<x + Base>> \o MagSub(Tl(a), Tl(b), 1)
             ELSE <<x>> \o MagSub(Tl(a), Tl(b), 0)

RECURSIVE MagLt(_, _)
MagLt(a, b) ==
    IF Len(a) # Len(b) THEN Len(a) < Len(b)
    ELSE IF a = <<>> THEN FALSE
    ELSE IF a[Len(a)] # b[Len(b)] THEN a[Len(a)] < b[Len(b)]
    ELSE MagLt(SubSeq(a, 1, Len(a) - 1), SubSeq(b, 1, Len(b) - 1))

\* a * k + c for one limb k
RECURSIVE MagMulS(_, _, _)
MagMulS(a, k, c) ==
    IF a = <<>> THEN MagOfNat(c)
    ELSE LET x == Head(a) * k + c
         IN  <<x % Base>> \o MagMulS(Tail(a), k, x \div Base)

RECURSIVE MagMul(_, _)
MagMul(a, b) ==
    IF a = <<>> \/ b = <<>> THEN <<>>
    ELSE LET rest == MagMul(a, Tail(b))
         IN  IF rest = <<>> THEN MagTrim(MagMulS(a, Head(b), 0))
             ELSE MagTrim(MagAdd(MagMulS(a, Head(b), 0), <<0>> \o rest, 0))

\* quotient (before trimming) and remainder of a by a positive k below Base
RECURSIVE MagDivRem(_, _)
MagDivRem(a, k) ==
    IF a = <<>> THEN [q |-> <<>>, r |-> 0]
    ELSE LET hi == MagDivRem(Tail(a), k)
             cur == hi.r * Base + Head(a)
         IN  [q |-> <<cur \div k>> \o hi.q, r |-> cur % k]

\* signed integers: a sign in {-1, 0, 1} and a magnitude
ZOf(k) ==
    IF k = 0 THEN [s |-> 0, m |-> <<>>]
    ELSE [s |-> IF k < 0 THEN -1 ELSE 1, m |-> MagOfNat(Abs(k))]

ZNeg(a) == [s |-> 0 - a.s, m |-> a.m]

ZAdd(a, b) ==
    IF a.s = 0 THEN b
    ELSE IF b.s = 0 THEN a
    ELSE IF a.s = b.s THEN [s |-> a.s, m |-> MagAdd(a.m, b.m, 0)]
    ELSE IF a.m = b.m THEN ZOf(0)
    ELSE IF MagLt(b.m, a.m) THEN [s |-> a.s, m |-> MagTrim(MagSub(a.m, b.m, 0))]
    ELSE [s |-> b.s, m |-> MagTrim(MagSub(b.m, a.m, 0))]

ZMul(a, b) ==
    IF a.s = 0 \/ b.s = 0 THEN ZOf(0)
    ELSE [s |-> a.s * b.s, m |-> MagMul(a.m, b.m)]

\* divisors tried when a fraction is reduced: powers of the primes up to 19
SmallDivisors == <<4096, 16, 2, 3125, 5, 81, 3, 7, 11, 13, 17, 19>>

\* n/d with every common divisor among SmallDivisors taken out, from the
\* i-th on; the value of the fraction is not changed
RECURSIVE QReduce(_, _, _)
QReduce(n, d, i) ==
    IF i > Len(SmallDivisors) THEN [n |-> n, d |-> d]
    ELSE LET k == SmallDivisors[i]
             qn == MagDivRem(n.m, k)
             qd == MagDivRem(d.m, k)
         IN  IF qn.r = 0 /\ qd.r = 0
             THEN QReduce([s |-> n.s, m |-> MagTrim(qn.q)],
                          [s |-> d.s, m |-> MagTrim(qd.q)], i)
             ELSE QReduce(n, d, i + 1)

\* fractions n/d of such integers with d > 0; d = 0 is infinity
QFrac(n, d) ==
    IF d.s = 0 THEN [n |-> n, d |-> d]
    ELSE IF n.s = 0 THEN [n |-> n, d |-> ZOf(1)]
    ELSE IF d.s < 0 THEN QReduce(ZNeg(n), ZNeg(d), 1)
    ELSE QReduce(n, d, 1)

QDec(n, d) == QFrac(ZOf(n), ZOf(d))

QOfR(r) == QDec(r.n, r.d)

QInf == QDec(1, 0)

QAdd(a, b) == QFrac(ZAdd(ZMul(a.n, b.d), ZMul(b.n, a.d)), ZMul(a.d, b.d))

QSub(a, b) == QFrac(ZAdd(ZMul(a.n, b.d), ZNeg(ZMul(b.n, a.d))), ZMul(a.d, b.d))

QMul(a, b) == QFrac(ZMul(a.n, b.n), ZMul(a.d, b.d))

QDiv(a, b) == QFrac(ZMul(a.n, b.d), ZMul(a.d, b.n))

QEq(a, b) == ZMul(a.n, b.d) = ZMul(b.n, a.d)

QSign(a) == a.n.s

RECURSIVE QPow(_, _)
QPow(x, k) == IF k = 0 THEN QDec(1, 1) ELSE QMul(x, QPow(x, k - 1))

-----------------------------------------------------------------------------
(* bouchiat *)

\* alpha = [-0.5164228, -2.737418, 16.07497, -38.87607, 39.49944, -14.17718]
alpha ==
    << QDec(-5164228, 10000000), QDec(-2737418, 1000000), QDec(1607497, 100000),
       QDec(-3887607, 100000), QDec(3949944, 100000), QDec(-1417718, 100000) >>

\* the term of index n with the exponent n+1 instead of n+2
CorrTermFromOne(x, n) == QMul(alpha[n + 1], QPow(x, n + 1))

\* alpha[n]*(d/Lc)**(n+2), n counted from 0
CorrTerm(x, n) == QMul(alpha[n + 1], QPow(x, n + 2))

\* corr = 0; for n in range(len(alpha)): corr += alpha[n]*(d/Lc)**(n+2)
RECURSIVE CorrLoop(_, _, _)
CorrLoop(x, n, corr) ==
    IF n >= Len(alpha) THEN corr
    ELSE CorrLoop(x, n + 1, QAdd(corr, CorrTerm(x, n)))

\* bouchiat(d, kBT, Lc, Lp): d in micrometers is first multiplied by 1000;
\* (kBT/Lp)*(0.25/(1-d/Lc)**2 - 0.25 + d/Lc + corr), infinite where d/Lc = 1
bouchiat(d, kBT, Lc, Lp) ==
    LET dn == QMul(d, QDec(1000, 1))
        x == QDiv(dn, Lc)
        g == QSub(QDec(1, 1), x)
        corr == CorrLoop(x, 0, QDec(0, 1))
    IN  IF QSign(g) = 0 THEN QInf
        ELSE QMul(QDiv(kBT, Lp),
                  QAdd(QAdd(QSub(QDiv(QDec(1, 4), QMul(g, g)), QDec(1, 4)), x), corr))

\* bouchiat is applied to the two distances of ev
EvalBouchiat ==
    /\ ev.func = "bouchiat"
    /\ ~ev.done
    /\ ev' = [ev EXCEPT !.F = bouchiat(QOfR(ev.d), QOfR(ev.kBT), QOfR(ev.Lc), QOfR(ev.Lp)),
                        !.F2 = bouchiat(QOfR(ev.d2), QOfR(ev.kBT), QOfR(ev.Lc), QOfR(ev.Lp)),
                        !.done = TRUE]
    /\ UNCHANGED <<model, func, fparams, pc, fr, df_full, result, last, nfits, hist>>

-----------------------------------------------------------------------------

Next ==
    \/ \E name \in FitModelNames : Construct(name)
    \/ \E p \in FitParamSpecs : Compile(p)
    \/ \E md \in MinDeltas, mi \in 0..MaxIters, fn \in FileNames : FitCall(md, mi, fn)
    \/ \E Lc \in LcFit, Lp \in LpFit, S \in SFit, Chisqr \in ChisqrFit :
          FitIter(Lc, Lp, S, Chisqr)

Spec == Init /\ [][Next]_vars

\* construction and compile alone, over every model name and parameter
\* specification
NextSetup ==
    \/ \E name \in ModelNames : Construct(name)
    \/ \E p \in ParamSpecs : Compile(p)

SpecSetup == Init /\ [][NextSetup]_vars

\* evaluations of WLC at two distances of the grid, for positive kBT, Lc, Lp
InitWLC ==
    /\ FitterInit
    /\ ev \in [func : {"WLC"}, done : {FALSE}, kBT : KBTEval, Lc : LcEval,
               Lp : LpEval, d : DEval, d2 : DEval, F : {R(0)}, F2 : {R(0)}]

NextWLC == EvalWLC

SpecWLC == InitWLC /\ [][NextWLC]_vars

\* evaluations of bouchiat at two distances of the grid, negative ones
\* included, for positive kBT, Lc, Lp
InitBouchiat ==
    /\ FitterInit
    /\ ev \in [func : {"bouchiat"}, done : {FALSE}, kBT : KBTEval, Lc : LcBou,
               Lp : LpEval, d : DBou, d2 : DBou, F : {QDec(0, 1)}, F2 : {QDec(0, 1)}]

NextBouchiat == EvalBouchiat

SpecBouchiat == InitBouchiat /\ [][NextBouchiat]_vars

-----------------------------------------------------------------------------
(* Properties *)

\* a fit call has ended, by return or by error, and nothing was called since
FitEnded == pc = "idle" /\ last.op = "fit"

\* a fit call has returned its summary row, and nothing was called since
Returned == FitEnded /\ last.err = "none"

StrictlyInside(x, lo, hi) == lo < x /\ x < hi

\* the minimizer output o is strictly inside the bounds of Lc and of Lp
OutInside(o) ==
    /\ StrictlyInside(o.Lc, fparams.Lc.min, fparams.Lc.max)
    /\ StrictlyInside(o.Lp, fparams.Lp.min, fparams.Lp.max)

\* the minimizer output o has Lc on or outside a bound of Lc
LcOut(o) == ~StrictlyInside(o.Lc, fparams.Lc.min, fparams.Lc.max)

\* iteration j of the call (1-based) is the only one whose output is not inside
\* the bounds, its Lc is on or outside a bound, and it is not the last executed
OnlyLcRejection(j) ==
    /\ j \in 1..(Len(hist.outs) - 1)
    /\ LcOut(hist.outs[j])
    /\ \A k \in 1..Len(hist.outs) : k # j => OutInside(hist.outs[k])

\* C1: a fit call in which exactly one iteration, not the last one executed,
\* had its Lc rejected and every other iteration was in bounds returns
\* normally; the rejected iteration counted toward max_iters, no accepted
\* record carries its iteration number, and the summary row is that of a later
\* iteration.
C1_RejectedIterationSkipped ==
    \A j \in 1..MaxIters :
        (FitEnded /\ OnlyLcRejection(j)) =>
            /\ last.err = "none"
            /\ hist.calls <= fr.max_iters
            /\ \A k \in 1..Len(fr.df_full) : fr.df_full[k].iter # j
            /\ last.df_file.nFittings > j

\* C2: every accepted record has Lc strictly between the bounds of Lc and Lp
\* strictly between the bounds of Lp, and no record carries the iteration
\* number of an iteration whose output was on or outside a bound.
C2_RecordsStrictlyInside ==
    last.op = "fit" =>
        /\ \A k \in 1..Len(fr.df_full) : OutInside(fr.df_full[k])
        /\ \A n \in 1..Len(hist.outs) :
              ~OutInside(hist.outs[n]) =>
                  \A k \in 1..Len(fr.df_full) : fr.df_full[k].iter # n
        /\ Returned => \A k \in 1..Len(df_full.v) : OutInside(df_full.v[k])

\* C2 witness: a fit call accepted a record and dropped an output lying
\* exactly on a bound
C2_Witness ==
    /\ last.op = "fit"
    /\ Len(fr.df_full) >= 1
    /\ \E n \in 1..Len(hist.outs) :
          /\ hist.outs[n].Lp = fparams.Lp.max
          /\ ~LcOut(hist.outs[n])
          /\ fr.i >= n

\* C3: whenever fit returns after fewer than max_iters iterations, at least
\* two records were accepted and the Lp of the last two differ by at most
\* min_delta.
C3_EarlyStopBetweenAccepted ==
    (Returned /\ fr.i < fr.max_iters) =>
        /\ Len(fr.df_full) >= 2
        /\ Abs(fr.df_full[Len(fr.df_full)].Lp - fr.df_full[Len(fr.df_full) - 1].Lp)
              <= fr.min_delta

\* C4: when the loop ends with no accepted record, fit ends in an error and
\* returns no summary row.
C4_EmptyFails ==
    (FitEnded /\ fr.df_full = <<>>) =>
        /\ last.err # "none"
        /\ fr.i = hist.calls => last.err = "IndexError"

\* C4 witness: every executed iteration was filtered out and the loop ended
C4_Witness ==
    /\ FitEnded
    /\ fr.df_full = <<>>
    /\ fr.i >= 1
    /\ fr.i = hist.calls
    /\ last.err = "IndexError"

\* C5: the summary row of a returned fit is the Lc, Lp, S, iteration number
\* and label of the last record of the sequence the call stored.
C5_SummaryIsLastRecord ==
    Returned =>
        /\ df_full = Some(fr.df_full)
        /\ LET r == df_full.v[Len(df_full.v)] IN
              /\ last.df_file.opt_Lc = r.Lc
              /\ last.df_file.opt_Lp = r.Lp
              /\ last.df_file.opt_S = r.S
              /\ last.df_file.nFittings = r.iter
              /\ last.df_file.filename = r.filename

\* C5 witness: a returned fit whose stored sequence has two records with
\* different Lp
C5_Witness ==
    /\ Returned
    /\ Len(df_full.v) >= 2
    /\ df_full.v[1].Lp # df_full.v[Len(df_full.v)].Lp

\* C6: a fit call never makes more than max_iters minimizer invocations, and
\* is out of its loop once it made max_iters of them; it makes at least one if
\* max_iters >= 1 and none if max_iters = 0.
C6_InvocationsBounded ==
    last.op = "fit" =>
        /\ hist.calls <= fr.max_iters
        /\ pc = "loop" => hist.calls < fr.max_iters
        /\ (FitEnded /\ fr.max_iters >= 1) => hist.calls >= 1
        /\ (FitEnded /\ fr.max_iters = 0) => hist.calls = 0

\* C6 witness: a fit call ended having used its whole budget of two or more
\* iterations
C6_Witness ==
    /\ FitEnded
    /\ fr.max_iters >= 2
    /\ hist.calls = fr.max_iters

\* C7: every minimizer invocation other than the first after compile is given,
\* as initial value of Lp, the Lp fitted by the invocation before it.
C7_WarmStart ==
    [][(hist.calls' = hist.calls + 1 /\ hist.warm) =>
           fparams.Lp.value = result.v.Lp]_vars

\* C8: compile with kBT = 4.1 and T = 1000 raises the configuration error;
\* compile with kBT = 4.1 and T = 25 succeeds and fixes kBT at 4.1.
C8_ConsistentPairAccepted ==
    /\ (last.op = "compile" /\ last.kBT = Some(410000000) /\ last.T = Some(1000))
          => last.err = "ValueError"
    /\ (last.op = "compile" /\ last.kBT = Some(410000000) /\ last.T = Some(25))
          => /\ last.err = "none"
             /\ fparams.kBT.value = 410000000

FiveModels == {"WLC", "eWLC", "bouchiat", "ebouchiat", "odijk"}

FourModels == {"WLC", "eWLC", "bouchiat", "odijk"}

\* C9 as stated: construction raises exactly for the names outside the five
\* of the model library, and otherwise selects the function of that name.
C9_FiveModelsAccepted ==
    last.op = "init" =>
        /\ last.err = "ValueError" <=> last.arg \notin FiveModels
        /\ last.err = "none" => (func = last.arg /\ model = last.arg)

\* C9 amended: construction raises exactly for the names outside WLC, eWLC,
\* bouchiat, odijk (ebouchiat is rejected), and otherwise selects the function
\* of that name.
C9_FourModelsAccepted ==
    last.op = "init" =>
        /\ last.err = "ValueError" <=> last.arg \notin FourModels
        /\ last.err = "none" => (func = last.arg /\ model = last.arg)

\* C9 witness: the constructor was given ebouchiat and raised
C9_Witness ==
    /\ last.op = "init"
    /\ last.arg = "ebouchiat"
    /\ last.err = "ValueError"
    /\ model = "none"


\* C10: WLC is 0 at d = 0, and for distances with 0 < d < d2 and d2*1000 < Lc
\* the force at d is strictly below the force at d2.
C10_WLCIncreasing ==
    ev.done =>
        /\ ev.d = R(0) => ev.F = R(0)
        /\ (RLt(R(0), ev.d) /\ RLt(ev.d, ev.d2) /\ RLt(RMul(ev.d2, R(1000)), ev.Lc))
              => RLt(ev.F, ev.F2)

\* C10 witness: WLC was evaluated at two distances 0 < d < d2 below Lc
C10_Witness ==
    /\ ev.done
    /\ RLt(R(0), ev.d)
    /\ RLt(ev.d, ev.d2)
    /\ RLt(RMul(ev.d2, R(1000)), ev.Lc)
    /\ RLt(R(0), ev.F)

-----------------------------------------------------------------------------
(* Properties of bouchiat *)

\* a bouchiat evaluation is done
BouchiatDone == ev.done /\ ev.func = "bouchiat"

\* d/Lc for a distance d of ev, given in micrometers
XOf(d) == RDiv(RMul(d, R(1000)), ev.Lc)

\* WLC at the distance d for the kBT, Lc, Lp of ev
WLCOf(d) == WLC(d, ev.kBT, ev.Lc, ev.Lp)

\* the sum of alpha_k * x^k over the powers k = 2..7, with the six
\* coefficients in the order of alpha
PolySum(x) ==
    QAdd(QAdd(QAdd(QMul(alpha[1], QPow(x, 2)), QMul(alpha[2], QPow(x, 3))),
              QAdd(QMul(alpha[3], QPow(x, 4)), QMul(alpha[4], QPow(x, 5)))),
         QAdd(QMul(alpha[5], QPow(x, 6)), QMul(alpha[6], QPow(x, 7))))

\* (kBT/Lp) times that sum at the distance d
ClaimedCorrection(d) == QMul(QOfR(RDiv(ev.kBT, ev.Lp)), PolySum(QOfR(XOf(d))))

\* what bouchiat's value F at the distance d adds to WLC, where both are finite
CorrectionOf(F, d) == QSub(F, QOfR(WLCOf(d)))

\* F, the value of bouchiat at d, is WLC plus (kBT/Lp) times the polynomial
\* sum (both are infinite where d/Lc = 1), and both are 0 at d = 0
BouchiatIsWLCPlusSum(F, d) ==
    /\ XOf(d) = R(1) => (F = QInf /\ WLCOf(d) = PosInf)
    /\ XOf(d) # R(1) => QEq(CorrectionOf(F, d), ClaimedCorrection(d))
    /\ d = R(0) => (QSign(F) = 0 /\ WLCOf(d) = R(0))

\* x and y are both negative or both positive
SameSide(x, y) ==
    \/ RLt(x, R(0)) /\ RLt(y, R(0))
    \/ RLt(R(0), x) /\ RLt(R(0), y)

-----------------------------------------------------------------------------
(* Properties of the convergence measure *)

\* a step that is one pass through the loop body of fit
IterStep == hist.calls' = hist.calls + 1

\* C12: an iteration of fit that is not the first of its call, whether or not
\* it follows a rejected iteration, computes dLp as the absolute difference
\* between the Lp it fitted and the Lp of the most recent accepted record;
\* the first iteration leaves dLp infinite.
C12_DLpFromLastAccepted ==
    [][/\ (IterStep /\ fr.i > 0 /\ Len(fr.df_full) >= 1) =>
              /\ fr'.i = fr.i + 1
              /\ fr'.dLp = Fin(Abs(result'.v.Lp - fr.df_full[Len(fr.df_full)].Lp))
       /\ (IterStep /\ fr.i = 0) => fr'.dLp = Infty]_vars

\* the loop of the last fit call was left by its while test, not by an error
\* raised inside it
LoopLeft == FitEnded /\ last.err # "KeyError"

\* C13: with a negative min_delta a fit call that returns has executed exactly
\* max_iters iterations; with min_delta = 0 the loop is left before max_iters
\* iterations only after an iteration whose dLp is exactly 0.
C13_NegativeNeverConverges ==
    /\ (Returned /\ fr.min_delta < 0) =>
          (fr.i = fr.max_iters /\ hist.calls = fr.max_iters)
    /\ (LoopLeft /\ fr.min_delta = 0 /\ fr.i < fr.max_iters) => fr.dLp = Fin(0)

\* C13 witness: a fit call with negative min_delta returned after max_iters =
\* 3 iterations although its second iteration had dLp = 0
C13_Witness ==
    /\ Returned
    /\ fr.min_delta < 0
    /\ fr.max_iters = 3
    /\ fr.i = 3
    /\ Len(fr.df_full) = 3
    /\ fr.df_full[2].dLp = Fin(0)

-----------------------------------------------------------------------------
(* Properties of the stretch modulus S *)

\* S is registered with the value and bounds of the parameter specification
SRegistered == fparams.S = Some([value |-> Wide.S, min |-> Wide.S_lower,
                                 max |-> Wide.S_upper, vary |-> TRUE])

\* compile registers a bounded S exactly for the models of ms, and the records
\* of fit carry a fitted S exactly for the models of ms, None for the others
SExactlyFor(ms) ==
    /\ (last.op = "compile" /\ last.err = "none") =>
          /\ model \in ms => SRegistered
          /\ model \notin ms => fparams.S = NoS
    /\ last.op = "fit" =>
          /\ \A k \in 1..Len(fr.df_full) :
                /\ model \in ms => fr.df_full[k].S.some
                /\ model \notin ms => fr.df_full[k].S = None
          /\ Returned => \A k \in 1..Len(df_full.v) : df_full.v[k].S.some <=> model \in ms

\* C14 as stated: among the accepted models only WLC lacks S: compile
\* registers a bounded S for every accepted model but WLC, and every record of
\* fit carries a fitted S unless the model is WLC, where S is None.
C14_OnlyWLCLacksS == SExactlyFor(FourModels \ {"WLC"})

\* C14 amended: compile registers a bounded S for odijk and eWLC only, and
\* every record of fit carries a fitted S for odijk and eWLC and None for WLC
\* and bouchiat.
C14_WLCAndBouchiatLackS == SExactlyFor({"odijk", "eWLC"})

\* C14 witness: a fit with model bouchiat returned; no S is registered and its
\* records have S = None
C14_Witness ==
    /\ Returned
    /\ model = "bouchiat"
    /\ fparams.S = NoS
    /\ Len(df_full.v) >= 1
    /\ df_full.v[1].S = None

-----------------------------------------------------------------------------
(* Properties of the calls of fit as wholes *)

\* C15: when fit returns, the accepted-record sequence is non-empty, its
\* iteration numbers are 1, 2, ..., n without a gap, the call made n or n+1
\* minimizer invocations, n+1 only if the last executed iteration was
\* rejected, and no iteration was executed after a rejected one.
C15_NoIterationAfterRejected ==
    Returned =>
        LET n == Len(fr.df_full) IN
        /\ n >= 1
        /\ df_full = Some(fr.df_full)
        /\ \A k \in 1..n : fr.df_full[k].iter = k
        /\ hist.calls \in {n, n + 1}
        /\ hist.calls = n + 1 => ~OutInside(hist.outs[n + 1])
        /\ hist.calls = n => OutInside(hist.outs[n])
        /\ \A j \in 1..(hist.calls - 1) : OutInside(hist.outs[j])

\* C15 witness: a fit call returned after two accepted iterations and a third,
\* rejected one
C15_Witness ==
    /\ Returned
    /\ Len(fr.df_full) = 2
    /\ hist.calls = 3
    /\ ~OutInside(hist.outs[3])

\* C16: a step of a fit call changes nothing of the prepared configuration
\* but the initial value of Lp: the kBT value and its non-varying flag, the
\* initial values of Lc and S and the bounds of Lc, Lp and S stay as they are.
C16_OnlyLpValueChanges ==
    [][(fparams.compiled /\ last'.op = "fit") =>
           /\ fparams'.compiled
           /\ fparams'.kBT = fparams.kBT
           /\ fparams'.Lc = fparams.Lc
           /\ fparams'.S = fparams.S
           /\ fparams'.Lp = [fparams.Lp EXCEPT !.value = fparams'.Lp.value]]_vars

\* C16 witness: two fit calls were made on a configuration compiled with
\* Lc = 2 and Lp = 1; the fits found another Lc and another Lp, and only the
\* initial value of Lp moved
C16_Witness ==
    /\ Returned
    /\ nfits = 2
    /\ result.v.Lc # Wide.Lc
    /\ fparams.Lp.value # Wide.Lp
    /\ fparams = [MakeParams(model, [dna |-> Wide], fparams.kBT.value)
                     EXCEPT !.Lp.value = result.v.Lp]

\* a step that ends a fit call in an error
EndsInError ==
    /\ last'.op = "fit"
    /\ pc' = "idle"
    /\ last'.err # "none"
    /\ (pc = "loop" \/ nfits' # nfits)

\* after the step the stored minimizer result is that of the last invocation
\* of the call, and the initial value of Lp is the Lp fitted by the last
\* iteration of the call that ran to its end
OverwrittenByCall ==
    /\ hist'.calls >= 1
    /\ result' = Some([Lc |-> hist'.outs[hist'.calls].Lc,
                       Lp |-> hist'.outs[hist'.calls].Lp,
                       S |-> result'.v.S, chisqr |-> result'.v.chisqr])
    /\ fr'.i >= 1
    /\ fparams'.Lp.value = hist'.outs[fr'.i].Lp

\* C17 as stated: no step of a fit call that does not return updates the
\* stored accepted-record sequence, and when a fit call ends in an error the
\* initial value of Lp and the stored minimizer result have been overwritten
\* by the iterations of that call.
C17_ErrorLeavesOverwrites ==
    [][/\ (last'.op = "fit" /\ last'.err # "none") => df_full' = df_full
       /\ EndsInError => OverwrittenByCall]_vars

\* C17 amended: no step of a fit call that does not return updates the stored
\* accepted-record sequence; when a fit call ends in an error after at least
\* one minimizer invocation, the initial value of Lp and the stored minimizer
\* result have been overwritten by the iterations of that call; when it ends
\* in an error without any invocation (max_iters = 0), the fitter's state is
\* as it was before the call.
C17_ErrorAfterInvocationOverwrites ==
    [][/\ (last'.op = "fit" /\ last'.err # "none") => df_full' = df_full
       /\ (EndsInError /\ hist'.calls >= 1) => OverwrittenByCall
       /\ (EndsInError /\ hist'.calls = 0) =>
              /\ fr'.max_iters = 0
              /\ UNCHANGED <<model, func, fparams, result, df_full>>]_vars

\* C17 witness: after a fit that returned, a second fit call ended in the
\* KeyError; the stored sequence is still that of the first call, while the
\* initial value of Lp and the stored result are those of the second call's
\* first and second iteration
C17_Witness ==
    /\ FitEnded
    /\ last.err = "KeyError"
    /\ nfits = 2
    /\ df_full.some
    /\ hist.calls = 2
    /\ fparams.Lp.value = hist.outs[1].Lp
    /\ result.v.Lp = hist.outs[2].Lp
    /\ df_full.v[Len(df_full.v)].Lp # hist.outs[1].Lp
    /\ hist.outs[1].Lp # hist.outs[2].Lp

====
